---- MODULE Spec2Model ----
(***************************************************************************)
(* A model of codahale/safecookie: sealing and opening of HTTP cookies     *)
(* with an AEAD (AES-GCM), in the variants the repository contains:        *)
(*   "attr"  SafeCookie.Seal(c) / SafeCookie.Open(c): in place, the        *)
(*           canonicalized cookie as associated data (safecookie.go 60-99) *)
(*   "name"  SafeCookie.Seal(data, c) / SafeCookie.Open(c): bytes, the     *)
(*           cookie's name as associated data (safecookie.go 158-188)      *)
(*   "pkg"   Seal(aead, c) / Open(aead, c): package-level, in place        *)
(*           (safecookie.go 307-361)                                       *)
(*   "gob"   SafeCookie.Seal(e, c) / SafeCookie.Open(c, e): a value as a   *)
(*           gob, the cookie's name as associated data (lines 254-289)     *)
(* Strings and byte strings are sequences of numbers 0..255.               *)
(***************************************************************************)
EXTENDS Integers, Sequences, FiniteSets, TLC

\* ------------------------------------------------------------------------
\* Bounds of the model.
\* ------------------------------------------------------------------------
\* Calls of Seal and calls of Open in one run.
MaxSeals == 2
MaxOpens == 1
\* Callers that use one instance at the same time.
NumCallers == 2

\* ------------------------------------------------------------------------
\* Byte helpers.
\* ------------------------------------------------------------------------
RECURSIVE XorBits(_, _, _)
\* The XOR of two numbers of n bits.
XorBits(a, b, n) ==
    IF n = 0 THEN 0
    ELSE ((a + b) % 2) + 2 * XorBits(a \div 2, b \div 2, n - 1)

Take(s, n) == IF n >= Len(s) THEN s ELSE SubSeq(s, 1, n)
Drop(s, n) == IF n >= Len(s) THEN << >> ELSE SubSeq(s, n + 1, Len(s))

\* strings.Map with a mapper that drops the characters of `drop`.
Filter(s, drop) == SelectSeq(s, LAMBDA x : x \notin drop)

RECURSIVE Digits(_)
\* fmt %d of a natural number.
Digits(n) ==
    IF n < 10 THEN <<48 + n>> ELSE Digits(n \div 10) \o <<48 + (n % 10)>>

\* ------------------------------------------------------------------------
\* encoding/base64, URLEncoding: the alphabet A-Z a-z 0-9 - _ , padded
\* with '='.
\* ------------------------------------------------------------------------
PadChar == 61

URLAlphabet ==
    [i \in 0..63 |->
        IF i < 26 THEN 65 + i
        ELSE IF i < 52 THEN 97 + (i - 26)
        ELSE IF i < 62 THEN 48 + (i - 52)
        ELSE IF i = 62 THEN 45 ELSE 95]

\* decodeMap: the index of a character of the alphabet, -1 for any other.
DecodeMap(ch) ==
    IF ch >= 65 /\ ch <= 90 THEN ch - 65
    ELSE IF ch >= 97 /\ ch <= 122 THEN ch - 97 + 26
    ELSE IF ch >= 48 /\ ch <= 57 THEN ch - 48 + 52
    ELSE IF ch = 45 THEN 62
    ELSE IF ch = 95 THEN 63
    ELSE -1

\* The byte at position i of b, 0 past its end (the zero bits the encoder
\* fills the last quantum with).
ByteAt(b, i) == IF i <= Len(b) THEN b[i] ELSE 0

\* base64.URLEncoding.EncodeToString: three bytes to four characters, the
\* last quantum padded with '='.
EncodeToString(b) ==
    [k \in 1..(4 * ((Len(b) + 2) \div 3)) |->
        LET q == (k - 1) \div 4
            r == (k - 1) % 4
            b1 == ByteAt(b, 3 * q + 1)
            b2 == ByteAt(b, 3 * q + 2)
            b3 == ByteAt(b, 3 * q + 3)
        IN  IF r = 0 THEN URLAlphabet[b1 \div 4]
            ELSE IF r = 1 THEN URLAlphabet[(b1 % 4) * 16 + (b2 \div 16)]
            ELSE IF r = 2 THEN
                IF 3 * q + 2 > Len(b) THEN PadChar
                ELSE URLAlphabet[(b2 % 16) * 4 + (b3 \div 64)]
            ELSE
                IF 3 * q + 3 > Len(b) THEN PadChar
                ELSE URLAlphabet[b3 % 64]]

\* Encoding.decode on a string without newlines: quanta of four characters,
\* the last one possibly padded ("xx==" or "xxx="); nothing may follow the
\* padding. The bits of the last character that no byte uses are not
\* looked at (the encoding is not Strict).
DecodeQuanta(s) ==
    LET n == Len(s)
        pad == IF n >= 2 /\ s[n] = PadChar /\ s[n - 1] = PadChar THEN 2
               ELSE IF n >= 1 /\ s[n] = PadChar THEN 1
               ELSE 0
        wellFormed ==
            /\ n % 4 = 0
            /\ \A i \in 1..(n - pad) : DecodeMap(s[i]) >= 0
        nbytes == (n \div 4) * 3 - pad
        Ix(i) == IF i <= n - pad THEN DecodeMap(s[i]) ELSE 0
    IN  IF ~wellFormed THEN [ok |-> FALSE, bytes |-> << >>]
        ELSE [ok |-> TRUE,
              bytes |->
                [j \in 1..nbytes |->
                    LET q == (j - 1) \div 3
                        r == (j - 1) % 3
                    IN  IF r = 0
                        THEN Ix(4 * q + 1) * 4 + (Ix(4 * q + 2) \div 16)
                        ELSE IF r = 1
                        THEN (Ix(4 * q + 2) % 16) * 16 + (Ix(4 * q + 3) \div 4)
                        ELSE (Ix(4 * q + 3) % 4) * 64 + Ix(4 * q + 4)]]

\* base64.URLEncoding.DecodeString: '\r' and '\n' are removed first.
DecodeString(s) == DecodeQuanta(Filter(s, {10, 13}))

\* ------------------------------------------------------------------------
\* crypto/aes and crypto/cipher: the AEAD, AES in Galois/Counter mode with
\* a 12-byte nonce and a 16-byte tag. Blocks, round keys and field elements
\* are sequences of bytes.
\* ------------------------------------------------------------------------
\* AEAD.NonceSize() of cipher.NewGCM.
NonceSize == 12
\* The tag gcm.Seal appends to the ciphertext.
TagSize == 16

\* A function on 1..n as the sequence of its values.
AsBytes(f) == f \o << >>

\* The XOR of two 4-bit numbers, at index 16 * a + b + 1.
NibbleXor ==
    AsBytes([i \in 1..256 |-> XorBits((i - 1) \div 16, (i - 1) % 16, 4)])

\* The XOR of two bytes, at index 256 * a + b + 1.
XorTable ==
    AsBytes([i \in 1..65536 |->
        LET a == (i - 1) \div 256
            b == (i - 1) % 256
        IN  16 * NibbleXor[16 * (a \div 16) + (b \div 16) + 1]
            + NibbleXor[16 * (a % 16) + (b % 16) + 1]])

\* a ^ b on bytes.
Xor(a, b) == XorTable[256 * a + b + 1]

\* The XOR of two 16-byte blocks.
XorBlock(a, b) == AsBytes([j \in 1..16 |-> Xor(a[j], b[j])])

ZeroBlock == AsBytes([j \in 1..16 |-> 0])

\* crypto/aes sbox0: the substitution box of FIPS-197, at index byte + 1.
SBox ==
    <<
       99, 124, 119, 123, 242, 107, 111, 197,  48,   1, 103,  43, 254, 215, 171, 118,
      202, 130, 201, 125, 250,  89,  71, 240, 173, 212, 162, 175, 156, 164, 114, 192,
      183, 253, 147,  38,  54,  63, 247, 204,  52, 165, 229, 241, 113, 216,  49,  21,
        4, 199,  35, 195,  24, 150,   5, 154,   7,  18, 128, 226, 235,  39, 178, 117,
        9, 131,  44,  26,  27, 110,  90, 160,  82,  59, 214, 179,  41, 227,  47, 132,
       83, 209,   0, 237,  32, 252, 177,  91, 106, 203, 190,  57,  74,  76,  88, 207,
      208, 239, 170, 251,  67,  77,  51, 133,  69, 249,   2, 127,  80,  60, 159, 168,
       81, 163,  64, 143, 146, 157,  56, 245, 188, 182, 218,  33,  16, 255, 243, 210,
      205,  12,  19, 236,  95, 151,  68,  23, 196, 167, 126,  61, 100,  93,  25, 115,
       96, 129,  79, 220,  34,  42, 144, 136,  70, 238, 184,  20, 222,  94,  11, 219,
      224,  50,  58,  10,  73,   6,  36,  92, 194, 211, 172,  98, 145, 149, 228, 121,
      231, 200,  55, 109, 141, 213,  78, 169, 108,  86, 244, 234, 101, 122, 174,   8,
      186, 120,  37,  46,  28, 166, 180, 198, 232, 221, 116,  31,  75, 189, 139, 138,
      112,  62, 181, 102,  72,   3, 246,  14,  97,  53,  87, 185, 134, 193,  29, 158,
      225, 248, 152,  17, 105, 217, 142, 148, 155,  30, 135, 233, 206,  85,  40, 223,
      140, 161, 137,  13, 191, 230,  66, 104,  65, 153,  45,  15, 176,  84, 187,  22
    >>

\* The product with x and with x + 1 in GF(2^8) modulo x^8+x^4+x^3+x+1
\* (the columns of MixColumns), at index byte + 1.
Mul2 ==
    AsBytes([i \in 1..256 |->
        IF i - 1 < 128 THEN 2 * (i - 1) ELSE Xor(2 * (i - 1) - 256, 27)])

Mul3 == AsBytes([i \in 1..256 |-> Xor(Mul2[i], i - 1)])

\* subw: the substitution box on the four bytes of a word.
SubWord(w) == <<SBox[w[1] + 1], SBox[w[2] + 1], SBox[w[3] + 1], SBox[w[4] + 1]>>

RECURSIVE ExpandWords(_, _, _, _)
\* expandKeyGo: word i of the key schedule from word i - 1 and word i - nk;
\* w holds the words 0..i-1 as bytes, rcon is the round constant.
ExpandWords(w, i, nk, rcon) ==
    IF i = 4 * (nk + 7) THEN w
    ELSE
      LET last == SubSeq(w, 4 * i - 3, 4 * i)
          t == IF i % nk = 0
               THEN LET s == SubWord(<<last[2], last[3], last[4], last[1]>>)
                    IN  <<Xor(s[1], rcon), s[2], s[3], s[4]>>
               ELSE IF nk > 6 /\ i % nk = 4 THEN SubWord(last)
               ELSE last
          q == 4 * (i - nk)
      IN  ExpandWords(w \o <<Xor(w[q + 1], t[1]), Xor(w[q + 2], t[2]),
                             Xor(w[q + 3], t[3]), Xor(w[q + 4], t[4])>>,
                      i + 1, nk, IF i % nk = 0 THEN Mul2[rcon + 1] ELSE rcon)

\* aes.NewCipher on a key of 16, 24 or 32 bytes: the round keys of the
\* 10, 12 or 14 rounds, 16 bytes each.
ExpandKey(key) == ExpandWords(key, Len(key) \div 4, Len(key) \div 4, 1)

\* One round on state s with round key r of enc: SubBytes, ShiftRows,
\* MixColumns (not in the last round), AddRoundKey.
Round(s, enc, r, final) ==
    AsBytes([k \in 1..16 |->
        LET col == (k - 1) \div 4
            row == (k - 1) % 4
            a(m) == SBox[s[4 * ((col + m) % 4) + m + 1] + 1]
        IN  IF final THEN Xor(a(row), enc[16 * r + k])
            ELSE Xor(Xor(Xor(Mul2[a(row) + 1], Mul3[a((row + 1) % 4) + 1]),
                         Xor(a((row + 2) % 4), a((row + 3) % 4))),
                     enc[16 * r + k])])

RECURSIVE Rounds(_, _, _, _)
\* The rounds r..nr on a state that has been computed.
RoundsOn(s, enc, r, nr) == IF Len(s) = 16 THEN Rounds(s, enc, r, nr) ELSE s

\* The rounds r..nr, each one computed before the next.
Rounds(s, enc, r, nr) ==
    IF r > nr THEN s ELSE RoundsOn(Round(s, enc, r, r = nr), enc, r + 1, nr)

\* cipher.Block.Encrypt: one block under the round keys enc.
Encrypt(enc, src) ==
    Rounds(XorBlock(src, enc), enc, 1, Len(enc) \div 16 - 1)

\* gcmDouble: the product of a field element with x in GF(2^128), in GCM's
\* bit order (a shift to the right, reduced by 0xe1 in the first byte).
MulX(v) ==
    AsBytes([j \in 1..16 |->
        LET sh == (v[j] \div 2) + (IF j > 1 THEN 128 * (v[j - 1] % 2) ELSE 0)
        IN  IF j = 1 /\ v[16] % 2 = 1 THEN Xor(sh, 225) ELSE sh])

\* The product with x^8.
MulX8(v) == MulX(MulX(MulX(MulX(MulX(MulX(MulX(MulX(v))))))))

\* What the byte shifted out of an element by a product with x^8 folds
\* back to (the first two bytes), at index byte + 1.
ReductionTable ==
    AsBytes([i \in 1..256 |->
        LET r == MulX8([j \in 1..16 |-> IF j = 16 THEN i - 1 ELSE 0])
        IN  <<r[1], r[2]>>])

\* The sums of the blocks a8, a4, a2, a1 picked by the bits of a 4-bit
\* number, at index number + 1.
NibbleProducts(a8, a4, a2, a1) ==
    AsBytes([i \in 1..16 |->
        XorBlock(XorBlock(IF ((i - 1) \div 8) % 2 = 1 THEN a8 ELSE ZeroBlock,
                          IF ((i - 1) \div 4) % 2 = 1 THEN a4 ELSE ZeroBlock),
                 XorBlock(IF ((i - 1) \div 2) % 2 = 1 THEN a2 ELSE ZeroBlock,
                          IF (i - 1) % 2 = 1 THEN a1 ELSE ZeroBlock))])

\* The sums of one entry of hi and one of lo, at index 16 * i + j + 1.
ByteProducts(hi, lo) ==
    AsBytes([i \in 1..256 |->
        XorBlock(hi[((i - 1) \div 16) + 1], lo[((i - 1) % 16) + 1])])

\* gcm.productTable: the products of the hash key h with the polynomials
\* of degree below eight (one byte of the other factor), at index byte + 1;
\* the first bit of a byte is the coefficient of x^0. crypto/cipher keeps
\* the sixteen products for four bits and takes two steps for a byte.
ProductTable(h) ==
    ByteProducts(
        NibbleProducts(h, MulX(h), MulX(MulX(h)), MulX(MulX(MulX(h)))),
        NibbleProducts(MulX(MulX(MulX(MulX(h)))),
                       MulX(MulX(MulX(MulX(MulX(h))))),
                       MulX(MulX(MulX(MulX(MulX(MulX(h)))))),
                       MulX(MulX(MulX(MulX(MulX(MulX(MulX(h)))))))))

\* One step of gcm.mul: z times x^8, plus the table entry p.
MulStep(z, p) ==
    AsBytes([j \in 1..16 |->
        Xor(IF j = 1 THEN ReductionTable[z[16] + 1][1]
            ELSE IF j = 2 THEN Xor(z[1], ReductionTable[z[16] + 1][2])
            ELSE z[j - 1],
            p[j])])

RECURSIVE MulBytes(_, _, _, _)
\* The bytes k..1 of x on a product that has been computed.
MulBytesOn(z, x, pt, k) == IF Len(z) = 16 THEN MulBytes(z, x, pt, k) ELSE z

\* The bytes k..1 of x, from the last one on.
MulBytes(z, x, pt, k) ==
    IF k = 0 THEN z
    ELSE MulBytesOn(MulStep(z, pt[x[k] + 1]), x, pt, k - 1)

\* gcm.mul: y times the hash key, with the product table pt.
Mul(y, pt) == MulBytes(ZeroBlock, y, pt, 16)

\* Block i of data, filled with zeros.
BlockAt(data, i) ==
    AsBytes([j \in 1..16 |->
        IF 16 * (i - 1) + j <= Len(data) THEN data[16 * (i - 1) + j] ELSE 0])

RECURSIVE UpdateBlocks(_, _, _, _)
\* The blocks i.. of data on a hash that has been computed.
UpdateBlocksOn(y, pt, data, i) ==
    IF Len(y) = 16 THEN UpdateBlocks(y, pt, data, i) ELSE y

\* gcm.update: y = (y + block) * h for the blocks i.. of data.
UpdateBlocks(y, pt, data, i) ==
    IF 16 * (i - 1) >= Len(data) THEN y
    ELSE UpdateBlocksOn(Mul(XorBlock(y, BlockAt(data, i)), pt), pt, data,
                        i + 1)

\* n in w bytes, the most significant first (n below 2^32).
BigEndian(n, w) ==
    [j \in 1..w |-> IF j < w - 3 THEN 0 ELSE (n \div (256 ^ (w - j))) % 256]

\* The GHASH of gcm.auth: the associated data, the ciphertext, then the
\* two lengths in bits.
GHash(pt, data, ct) ==
    LET y1 == UpdateBlocks(ZeroBlock, pt, data, 1)
        y2 == UpdateBlocks(y1, pt, ct, 1)
        lens == BigEndian(8 * Len(data), 8) \o BigEndian(8 * Len(ct), 8)
    IN  Mul(XorBlock(y2, lens), pt)

\* The counter block: the nonce, then the 32-bit block counter.
Counter(nonce, n) == nonce \o BigEndian(n, 4)

\* cipher.NewGCM(b) on the block cipher with round keys enc: the product
\* table of the hash key, the encryption of the zero block.
GCM(enc) == [enc |-> enc, productTable |-> ProductTable(Encrypt(enc, ZeroBlock))]

\* A key size aes.NewCipher accepts (AES-128 only).
KeySizeOK128Only(n) == n = 16

\* aes.NewCipher: the key sizes of AES-128, AES-192 and AES-256.
KeySizeOK(n) == n \in {16, 24, 32}

NoInstance ==
    [ok |-> FALSE, key |-> << >>,
     gcm |-> [enc |-> << >>, productTable |-> << >>]]

\* New / NewGCM / AESGCM: aes.NewCipher(key), then cipher.NewGCM(b), which
\* cannot fail for the 16-byte block of AES.
NewResult(key) ==
    IF KeySizeOK(Len(key))
    THEN [err |-> "nil",
          sc |-> [ok |-> TRUE, key |-> key, gcm |-> GCM(ExpandKey(key))]]
    ELSE [err |-> "KeySizeError", sc |-> NoInstance]

\* Block n of the counter-mode keystream: the encryption of the counter
\* n + 1 (counter 1 masks the tag).
KeyStream(g, nonce, n) == Encrypt(g.enc, Counter(nonce, n + 1))

\* gcm.counterCrypt: the keystream XORed onto the text.
Crypt(g, nonce, text) ==
    LET ks == AsBytes([i \in 1..((Len(text) + 15) \div 16) |->
                          KeyStream(g, nonce, i)])
    IN  AsBytes([k \in 1..Len(text) |->
            Xor(text[k], ks[((k - 1) \div 16) + 1][((k - 1) % 16) + 1])])

\* gcm.auth: the GHASH of associated data and ciphertext, masked with the
\* encryption of counter 1.
Tag(g, nonce, ad, ct) ==
    XorBlock(GHash(g.productTable, ad, ct), Encrypt(g.enc, Counter(nonce, 1)))

\* dst with the ciphertext ct and its tag appended.
AppendTagged(g, dst, nonce, ct, ad) == dst \o ct \o Tag(g, nonce, ad, ct)

\* gcm.Seal(dst, nonce, plaintext, data): dst with the ciphertext and the tag
\* appended.
GCMSeal(g, dst, nonce, pt, ad) ==
    AppendTagged(g, dst, nonce, Crypt(g, nonce, pt), ad)

\* gcm.Open(nil, nonce, ciphertext, data): an error when the ciphertext is
\* shorter than the tag or the tag does not match; the plaintext otherwise
\* (a nil slice when it is empty).
GCMOpen(g, nonce, ciphertext, ad) ==
    IF Len(ciphertext) < TagSize THEN [ok |-> FALSE, pt |-> << >>]
    ELSE
      LET ct == Take(ciphertext, Len(ciphertext) - TagSize)
          tag == Drop(ciphertext, Len(ciphertext) - TagSize)
      IN  IF tag = Tag(g, nonce, ad, ct)
          THEN [ok |-> TRUE, pt |-> Crypt(g, nonce, ct)]
          ELSE [ok |-> FALSE, pt |-> << >>]

\* ------------------------------------------------------------------------
\* net/http Cookie and its String(), which canonicalize uses.
\* ------------------------------------------------------------------------
NoTime == [sec |-> 0, nsec |-> 0]

\* sanitizeCookieName: '\n' and '\r' become '-'.
SanitizeCookieName(n) ==
    [i \in 1..Len(n) |-> IF n[i] \in {10, 13} THEN 45 ELSE n[i]]

\* sanitizeCookieValue: the bytes that are not valid in a cookie value are
\* dropped; valid are 0x21..0x7e without '"', ',', ';' and '\'.
SanitizeCookieValue(v) ==
    Filter(v, (0..255) \ ((33..126) \ {34, 44, 59, 92}))

\* sanitizeCookiePath: valid are 0x20..0x7e without ';'.
SanitizeCookiePath(v) ==
    Filter(v, (0..255) \ ((32..126) \ {59}))

\* isCookieDomainName: labels of letters, digits and '-' separated by dots,
\* after an optional leading dot; no label is empty or longer than 63
\* bytes, or starts with '-'; no '-' before a dot or at the end; at least
\* one letter; a dot at the end is accepted.
IsCookieDomainName(s) ==
    LET t == IF Len(s) > 0 /\ s[1] = 46 THEN Tail(s) ELSE s
        n == Len(t)
        Last(i) == IF i = 1 THEN 46 ELSE t[i - 1]
        Letter(ch) == ch \in 97..122 \/ ch \in 65..90
        PartLen(i) ==
            LET dots == {j \in 1..(i - 1) : t[j] = 46}
            IN  i - 1 - (IF dots = {} THEN 0
                         ELSE CHOOSE j \in dots : \A k \in dots : k <= j)
    IN  /\ Len(s) > 0
        /\ Len(s) <= 255
        /\ \A i \in 1..n :
              \/ Letter(t[i])
              \/ t[i] \in 48..57
              \/ t[i] = 45 /\ Last(i) # 46
              \/ t[i] = 46 /\ Last(i) \notin {46, 45} /\ PartLen(i) \in 1..63
        /\ Last(n + 1) # 45
        /\ PartLen(n + 1) <= 63
        /\ \E i \in 1..n : Letter(t[i])

RECURSIVE Dtoi(_, _, _, _)
\* dtoi: the decimal number s[i..hi], 256 for any number above 255.
Dtoi(s, i, hi, n) ==
    IF i > hi THEN n
    ELSE Dtoi(s, i + 1, hi, IF 10 * n + (s[i] - 48) > 255 THEN 256
                            ELSE 10 * n + (s[i] - 48))

\* net.ParseIP on a string without ':': four decimal numbers up to 255,
\* separated by dots.
ParseIPv4(s) ==
    LET dots == {i \in 1..Len(s) : s[i] = 46}
        ends == dots \cup {Len(s) + 1}
        Upto(lo) == CHOOSE hi \in ends : hi > lo /\ \A k \in ends : k > lo => hi <= k
    IN  /\ Cardinality(dots) = 3
        /\ \A lo \in dots \cup {0} :
              /\ Upto(lo) - lo > 1
              /\ \A i \in (lo + 1)..(Upto(lo) - 1) : s[i] \in 48..57
              /\ Dtoi(s, lo + 1, Upto(lo) - 1, 0) <= 255

\* validCookieDomain: a domain name, or an IPv4 address.
ValidCookieDomain(d) == IsCookieDomainName(d) \/ ParseIPv4(d)

\* The names time.RFC1123 writes for the days of the week and the months.
DayNames ==
    <<<<83, 117, 110>>, <<77, 111, 110>>, <<84, 117, 101>>, <<87, 101, 100>>,
      <<84, 104, 117>>, <<70, 114, 105>>, <<83, 97, 116>>>>

MonthNames ==
    <<<<74, 97, 110>>, <<70, 101, 98>>, <<77, 97, 114>>, <<65, 112, 114>>,
      <<77, 97, 121>>, <<74, 117, 110>>, <<74, 117, 108>>, <<65, 117, 103>>,
      <<83, 101, 112>>, <<79, 99, 116>>, <<78, 111, 118>>, <<68, 101, 99>>>>

\* A number below 100 in two digits.
Pad2(n) == <<48 + (n \div 10), 48 + (n % 10)>>

\* The date in UTC of day number `days` since 1 January 1970.
CivilDate(days) ==
    LET z == days + 719468
        era == z \div 146097
        doe == z - era * 146097
        yoe == (doe - (doe \div 1460) + (doe \div 36524) - (doe \div 146096))
               \div 365
        doy == doe - (365 * yoe + (yoe \div 4) - (yoe \div 100))
        mp == (5 * doy + 2) \div 153
        m == IF mp < 10 THEN mp + 3 ELSE mp - 9
    IN  [year |-> yoe + era * 400 + (IF m <= 2 THEN 1 ELSE 0),
         month |-> m,
         day |-> doy - ((153 * mp + 2) \div 5) + 1]

\* Expires.UTC().Format(time.RFC1123), "Mon, 02 Jan 2006 15:04:05 MST", of
\* a time after the epoch: "Sat, 22 Nov 2014 10:43:00 UTC".
FormatTime(t) ==
    LET days == t.sec \div 86400
        secs == t.sec % 86400
        d == CivilDate(days)
    IN  DayNames[((days + 4) % 7) + 1] \o <<44, 32>> \o Pad2(d.day)
        \o <<32>> \o MonthNames[d.month] \o <<32>>
        \o Pad2(d.year \div 100) \o Pad2(d.year % 100) \o <<32>>
        \o Pad2(secs \div 3600) \o <<58>> \o Pad2((secs % 3600) \div 60)
        \o <<58>> \o Pad2(secs % 60) \o <<32, 85, 84, 67>>

\* Cookie.String().
CookieString(c) ==
    SanitizeCookieName(c.Name) \o <<61>> \o SanitizeCookieValue(c.Value)
    \o (IF Len(c.Path) > 0
        THEN <<59, 32, 80, 97, 116, 104, 61>> \o SanitizeCookiePath(c.Path)
        ELSE << >>)
    \o (IF Len(c.Domain) > 0 /\ ValidCookieDomain(c.Domain)
        THEN <<59, 32, 68, 111, 109, 97, 105, 110, 61>>
             \o (IF c.Domain[1] = 46 THEN Tail(c.Domain) ELSE c.Domain)
        ELSE << >>)
    \o (IF c.Expires.sec > 0
        THEN <<59, 32, 69, 120, 112, 105, 114, 101, 115, 61>>
             \o FormatTime(c.Expires)
        ELSE << >>)
    \o (IF c.MaxAge > 0
        THEN <<59, 32, 77, 97, 120, 45, 65, 103, 101, 61>> \o Digits(c.MaxAge)
        ELSE IF c.MaxAge < 0
        THEN <<59, 32, 77, 97, 120, 45, 65, 103, 101, 61, 48>>
        ELSE << >>)
    \o (IF c.HttpOnly
        THEN <<59, 32, 72, 116, 116, 112, 79, 110, 108, 121>> ELSE << >>)
    \o (IF c.Secure THEN <<59, 32, 83, 101, 99, 117, 114, 101>> ELSE << >>)

\* canonicalize without the blanking of the value.
CanonicalizeKeepValue(c) == CookieString(c)

\* canonicalize: the cookie's String() with the value blanked.
Canonicalize(c) == CookieString([c EXCEPT !.Value = << >>])

\* The associated data of a variant whose name-only binding also covers the
\* other attributes.
NameADAllAttributes(c) == Canonicalize(c)

\* The associated data of the name-only variants: []byte(c.Name).
NameAD(c) == c.Name

\* ------------------------------------------------------------------------
\* Seal and Open, as functions of the instance, the cookie and the nonce
\* that rand.Read returned.
\* ------------------------------------------------------------------------
\* Seal with the nonce as make left it, all zero: what rand.Read returned
\* is not used.
SealBytesZeroNonce(g, nonce, pt, ad) ==
    GCMSeal(g, [i \in 1..NonceSize |-> 0], [i \in 1..NonceSize |-> 0], pt, ad)

\* sc.gcm.Seal(nonce, nonce, plaintext, ad): nonce, ciphertext, tag.
SealBytes(g, nonce, pt, ad) == GCMSeal(g, nonce, nonce, pt, ad)

\* The result of a call: the error returned, whether the call panicked
\* instead of returning, the bytes returned (hasData: not nil), and the
\* cookie as the call leaves it.
Result(err, panicked, hasData, data, c) ==
    [err |-> err, panicked |-> panicked, hasData |-> hasData,
     data |-> data, c |-> c]

\* SafeCookie.Seal(c), full-attribute, in place (lines 60-71), after a
\* successful rand.Read.
SealAttrResult(sc, c, nonce) ==
    Result("nil", FALSE, FALSE, << >>,
           [c EXCEPT !.Value =
               EncodeToString(SealBytes(sc.gcm, nonce, c.Value,
                                        Canonicalize(c)))])

\* An Open that writes the decrypted bytes into the cookie before it looks
\* at the result of the authentication.
OpenAttrResultEarlyWrite(sc, c) ==
    LET d == DecodeString(c.Value)
    IN  IF ~d.ok THEN Result("ErrInvalidCookie", FALSE, FALSE, << >>, c)
        ELSE IF Len(d.bytes) < NonceSize
        THEN Result("none", TRUE, FALSE, << >>, c)
        ELSE
          LET ct == Drop(d.bytes, NonceSize)
              o == GCMOpen(sc.gcm, Take(d.bytes, NonceSize), ct,
                           Canonicalize(c))
              written ==
                [c EXCEPT !.Value =
                    Crypt(sc.gcm, Take(d.bytes, NonceSize),
                          Take(ct, Len(ct) - TagSize))]
          IN  IF ~o.ok
              THEN Result("ErrInvalidCookie", FALSE, FALSE, << >>, written)
              ELSE Result("nil", FALSE, FALSE, << >>, written)

\* SafeCookie.Open(c), lines 86-91: what the call does with the result o
\* of the AEAD.
OpenAttrAuth(c, o) ==
    IF ~o.ok THEN Result("ErrInvalidCookie", FALSE, FALSE, << >>, c)
    ELSE Result("nil", FALSE, FALSE, << >>, [c EXCEPT !.Value = o.pt])

\* SafeCookie.Open(c), full-attribute, in place (lines 75-92). The slices
\* b[:NonceSize] and b[NonceSize:] panic when b is shorter than the nonce.
OpenAttrResult(sc, c) ==
    LET d == DecodeString(c.Value)
    IN  IF ~d.ok THEN Result("ErrInvalidCookie", FALSE, FALSE, << >>, c)
        ELSE IF Len(d.bytes) < NonceSize
        THEN Result("none", TRUE, FALSE, << >>, c)
        ELSE OpenAttrAuth(c, GCMOpen(sc.gcm, Take(d.bytes, NonceSize),
                                     Drop(d.bytes, NonceSize),
                                     Canonicalize(c)))

\* SafeCookie.Seal(data, c), name-only (lines 158-168).
SealNameResult(sc, data, c, nonce) ==
    Result("nil", FALSE, FALSE, << >>,
           [c EXCEPT !.Value =
               EncodeToString(SealBytes(sc.gcm, nonce, data, NameAD(c)))])

\* SafeCookie.Open(c), lines 183-187: what the call does with the result o
\* of the AEAD.
OpenNameAuth(c, o) ==
    IF ~o.ok THEN Result("ErrInvalidCookie", FALSE, FALSE, << >>, c)
    ELSE Result("nil", FALSE, o.pt # << >>, o.pt, c)

\* SafeCookie.Open(c), name-only, returning the bytes (lines 173-188); the
\* AEAD appends the plaintext to a nil slice, which stays nil when the
\* plaintext is empty.
OpenNameResult(sc, c) ==
    LET d == DecodeString(c.Value)
    IN  IF ~d.ok \/ Len(d.bytes) <= NonceSize
        THEN Result("ErrInvalidCookie", FALSE, FALSE, << >>, c)
        ELSE OpenNameAuth(c, GCMOpen(sc.gcm, Take(d.bytes, NonceSize),
                                     Drop(d.bytes, NonceSize), NameAD(c)))

\* Seal(aead, c), package-level, in place (lines 307-318).
SealPkgResult(sc, c, nonce) ==
    Result("nil", FALSE, FALSE, << >>,
           [c EXCEPT !.Value =
               EncodeToString(SealBytes(sc.gcm, nonce, c.Value,
                                        Canonicalize(c)))])

\* Open(aead, c), lines 333-338: what the call does with the result o of
\* the AEAD.
OpenPkgAuth(c, o) ==
    IF ~o.ok THEN Result("errOpen", FALSE, FALSE, << >>, c)
    ELSE Result("nil", FALSE, FALSE, << >>, [c EXCEPT !.Value = o.pt])

\* Open(aead, c), package-level, in place (lines 322-339): the errors of
\* base64 and of the AEAD are returned as they are.
OpenPkgResult(sc, c) ==
    LET d == DecodeString(c.Value)
    IN  IF ~d.ok THEN Result("CorruptInputError", FALSE, FALSE, << >>, c)
        ELSE IF Len(d.bytes) < NonceSize
        THEN Result("none", TRUE, FALSE, << >>, c)
        ELSE OpenPkgAuth(c, GCMOpen(sc.gcm, Take(d.bytes, NonceSize),
                                    Drop(d.bytes, NonceSize),
                                    Canonicalize(c)))

\* ------------------------------------------------------------------------
\* encoding/gob, for the values of the model: a string, an int, and a func
\* (which gob cannot encode). A value is [kind, s, n]: its kind, and the
\* string or the int it holds. An int is a Go int of 64 bits: its eight
\* bytes in two's complement, the most significant first; a uint64 of the
\* wire is its eight bytes likewise. The message of a top-level value is:
\* the length of what follows, the type id as a signed int, a zero byte
\* (the field delta of a value that is not a struct), the value.
\* ------------------------------------------------------------------------
\* The ids of the predeclared types: tInt and tString.
GobTypeId(kind) == IF kind = "string" THEN 6 ELSE 2

\* The first id a type definition may define.
FirstUserId == 64

\* uint64(n), for a number n of 0 .. 2^31 - 1.
Word(n) ==
    <<0, 0, 0, 0, (n \div 16777216) % 256, (n \div 65536) % 256,
      (n \div 256) % 256, n % 256>>

\* ^x on 64 bits.
Not64(x) == AsBytes([j \in 1..8 |-> 255 - x[j]])

\* int64(i), for a number i of -2^31 .. 2^31 - 1.
Int64(i) == IF i < 0 THEN Not64(Word(-(i + 1))) ELSE Word(i)

\* x << 1 on 64 bits.
Shl1(x) ==
    AsBytes([j \in 1..8 |->
        ((2 * x[j]) % 256) + (IF j < 8 THEN x[j + 1] \div 128 ELSE 0)])

\* x >> 1 on 64 bits, unsigned.
Shr1(x) ==
    AsBytes([j \in 1..8 |->
        (x[j] \div 2) + (IF j > 1 THEN 128 * (x[j - 1] % 2) ELSE 0)])

\* a > b for two uint64.
Greater(a, b) ==
    \E j \in 1..8 : a[j] > b[j] /\ \A k \in 1..(j - 1) : a[k] = b[k]

\* The uint64 x is above the number n of 0 .. 2^31 - 1.
Exceeds(x, n) == Greater(x, Word(n))

\* int(x) for a uint64 x below 2^31.
Small(x) == 16777216 * x[5] + 65536 * x[6] + 256 * x[7] + x[8]

\* bits.LeadingZeros64(x) >> 3: the zero bytes x begins with.
LeadingZeroBytes(x) == Cardinality({j \in 1..8 : \A k \in 1..j : x[k] = 0})

\* encodeUint: a number up to 0x7f is one byte; a larger one is the negated
\* count of its bytes, then its bytes.
EncodeUint(x) ==
    LET bc == LeadingZeroBytes(x)
    IN  IF bc = 8 \/ (bc = 7 /\ x[8] <= 127) THEN <<x[8]>>
        ELSE <<256 - (8 - bc)>> \o SubSeq(x, bc + 1, 8)

\* encodeInt: the number shifted left by one bit; a negative number is
\* complemented first and has the lowest bit set.
EncodeInt(i) ==
    EncodeUint(IF i[1] >= 128
               THEN [Shl1(Not64(i)) EXCEPT ![8] = @ + 1]
               ELSE Shl1(i))

\* gob.NewEncoder(w).Encode(e): the bytes of w, or an error.
GobEncode(e) ==
    IF e.kind \notin {"string", "int"} THEN [ok |-> FALSE, bytes |-> << >>]
    ELSE
      LET value == IF e.kind = "string"
                   THEN EncodeUint(Word(Len(e.s))) \o e.s
                   ELSE EncodeInt(e.n)
          msg == EncodeInt(Int64(GobTypeId(e.kind))) \o <<0>> \o value
      IN  [ok |-> TRUE, bytes |-> EncodeUint(Word(Len(msg))) \o msg]

\* decodeUint at position i of b: the number and the position after it, or
\* not ok when the bytes end before the number does or the count of bytes
\* is above eight.
DecodeUint(b, i) ==
    IF i > Len(b) THEN [ok |-> FALSE, v |-> Word(0), next |-> i]
    ELSE IF b[i] <= 127 THEN [ok |-> TRUE, v |-> Word(b[i]), next |-> i + 1]
    ELSE
      LET n == 256 - b[i]
      IN  IF n > 8 \/ i + n > Len(b)
          THEN [ok |-> FALSE, v |-> Word(0), next |-> i]
          ELSE [ok |-> TRUE,
                v |-> AsBytes([j \in 1..8 |->
                          IF j <= 8 - n THEN 0 ELSE b[i + j - (8 - n)]]),
                next |-> i + n + 1]

\* toInt of decodeInt: the lowest bit is the sign.
ToInt(u) == IF u[8] % 2 = 1 THEN Not64(Shr1(u)) ELSE Shr1(u)

\* The int64 v is a number of 32 bits (decInt32, for a typeId).
InInt32(v) ==
    \/ (\A j \in 1..4 : v[j] = 0) /\ v[5] < 128
    \/ (\A j \in 1..4 : v[j] = 255) /\ v[5] >= 128

\* typeId(v): the int32 in the low 32 bits of the int64 v.
TypeId(v) ==
    IF v[5] >= 128
    THEN -(16777216 * (255 - v[5]) + 65536 * (255 - v[6])
           + 256 * (255 - v[7]) + (255 - v[8])) - 1
    ELSE Small(v)

\* The fields of the structs a type definition is made of (wireType and
\* what it holds, type.go), in the order of their declaration: a struct by
\* its name, a typeId (int32), an int, a string, the slice of the fields
\* of a struct type.
WireFields(t) ==
    CASE t = "wireType" ->
            <<"arrayType", "sliceType", "structType", "mapType",
              "gobEncoderType", "gobEncoderType", "gobEncoderType">>
      [] t = "arrayType" -> <<"CommonType", "typeId", "int">>
      [] t = "sliceType" -> <<"CommonType", "typeId">>
      [] t = "structType" -> <<"CommonType", "fieldTypes">>
      [] t = "fieldType" -> <<"string", "typeId">>
      [] t = "mapType" -> <<"CommonType", "typeId", "typeId">>
      [] t = "gobEncoderType" -> <<"CommonType">>
      [] t = "CommonType" -> <<"string", "typeId">>

\* The decoder after a part of the message: whether it went on, and where.
At(ok, next) == [ok |-> ok, next |-> next]

RECURSIVE DecodeStruct(_, _, _, _)
RECURSIVE DecodeField(_, _, _)
RECURSIVE DecodeSlice(_, _, _)
\* decodeStruct for a struct t of a type definition, from position i of
\* the message, the last field read being fieldnum: fields come as a delta
\* of the field number and the value; a zero delta, or the end of the
\* message, ends the struct; a field number the struct does not have is an
\* error.
DecodeStruct(msg, i, t, fieldnum) ==
    IF i > Len(msg) THEN At(TRUE, i)
    ELSE
      LET delta == DecodeUint(msg, i)
      IN  IF ~delta.ok THEN At(FALSE, i)
          ELSE IF delta.v = Word(0) THEN At(TRUE, delta.next)
          ELSE IF Exceeds(delta.v, Len(WireFields(t)) - 1 - fieldnum)
          THEN At(FALSE, i)
          ELSE
            LET f == fieldnum + Small(delta.v)
                r == DecodeField(msg, delta.next, WireFields(t)[f + 1])
            IN  IF ~r.ok THEN r ELSE DecodeStruct(msg, r.next, t, f)

\* The decoding of one field of kind k (decString, decInt32, decInt64,
\* decodeSlice, decodeStruct).
DecodeField(msg, i, k) ==
    IF k \in {"string", "typeId", "int", "fieldTypes"}
    THEN
      LET u == DecodeUint(msg, i)
          left == Len(msg) - u.next + 1
      IN  IF ~u.ok THEN At(FALSE, i)
          ELSE IF k = "int" THEN At(TRUE, u.next)
          ELSE IF k = "typeId" THEN At(InInt32(ToInt(u.v)), u.next)
          ELSE IF Exceeds(u.v, left) THEN At(FALSE, i)
          ELSE IF k = "string" THEN At(TRUE, u.next + Small(u.v))
          ELSE DecodeSlice(msg, u.next, Small(u.v))
    ELSE DecodeStruct(msg, i, k, -1)

\* decodeArrayHelper for the n fields of a struct type that are still to
\* come: an element needs bytes left in the message.
DecodeSlice(msg, i, n) ==
    IF n = 0 THEN At(TRUE, i)
    ELSE IF i > Len(msg) THEN At(FALSE, i)
    ELSE
      LET r == DecodeStruct(msg, i, "fieldType", -1)
      IN  IF ~r.ok THEN r ELSE DecodeSlice(msg, r.next, n - 1)

\* recvType: the definition of the type -id at position i of the message.
\* An id below the first user id, or one defined before, is refused; the
\* definition is a wireType, and the message ends with it.
RecvType(msg, i, id, seen) ==
    /\ id <= -FirstUserId
    /\ id > -2147483647 - 1
    /\ -id \notin seen
    /\ LET r == DecodeStruct(msg, i, "wireType", -1)
       IN  r.ok /\ r.next > Len(msg)

\* recvMessage at position i of the stream b: the count, then as many
\* bytes; not ok when the stream ends before.
RecvMessage(b, i) ==
    LET len == DecodeUint(b, i)
    IN  IF ~len.ok \/ Exceeds(len.v, Len(b) - len.next + 1)
        THEN [ok |-> FALSE, msg |-> << >>, next |-> i]
        ELSE [ok |-> TRUE,
              msg |-> SubSeq(b, len.next, len.next + Small(len.v) - 1),
              next |-> len.next + Small(len.v)]

\* decInt and decString on the value at position i of the message: the
\* target with the value received; an error when the number or the string
\* is not all there.
DecodeValue(msg, i, e) ==
    LET val == DecodeUint(msg, i)
    IN  IF ~val.ok THEN [err |-> "GobDecodeError", e |-> e]
        ELSE IF e.kind = "int"
        THEN [err |-> "nil", e |-> [e EXCEPT !.n = ToInt(val.v)]]
        ELSE IF Exceeds(val.v, Len(msg) - val.next + 1)
        THEN [err |-> "GobDecodeError", e |-> e]
        ELSE [err |-> "nil",
              e |-> [e EXCEPT !.s = SubSeq(msg, val.next,
                                           val.next + Small(val.v) - 1)]]

\* decodeSingle on what follows the type id: the field delta of a value
\* that is not a struct is zero.
DecodeSingle(msg, i, e) ==
    LET delta == DecodeUint(msg, i)
    IN  IF ~delta.ok \/ delta.v # Word(0)
        THEN [err |-> "GobDecodeError", e |-> e]
        ELSE DecodeValue(msg, delta.next, e)

RECURSIVE DecodeMessage(_, _, _, _)
\* Decoder.Decode from position i of the stream b, the types of seen
\* defined (decodeTypeSequence, then decodeValue): a message with a
\* negative type id defines a type and the next message is read; the first
\* message with another id carries the value, and its id is the one of the
\* target's type.
DecodeMessage(b, i, seen, e) ==
    LET m == RecvMessage(b, i)
        id == DecodeUint(m.msg, 1)
        t == TypeId(ToInt(id.v))
    IN  IF ~m.ok \/ ~id.ok THEN [err |-> "GobDecodeError", e |-> e]
        ELSE IF t >= 0
        THEN IF t # GobTypeId(e.kind)
             THEN [err |-> "GobDecodeError", e |-> e]
             ELSE DecodeSingle(m.msg, id.next, e)
        ELSE IF ~RecvType(m.msg, id.next, t, seen)
        THEN [err |-> "GobDecodeError", e |-> e]
        ELSE DecodeMessage(b, m.next, seen \cup {-t}, e)

\* gob.NewDecoder(r).Decode(e) into a target of the kind of e: the target
\* with the value received, or an error and the target as it was. The
\* decoder reads the messages up to the one with the value and leaves what
\* follows it unread.
GobDecode(b, e) == DecodeMessage(b, 1, {}, e)

\* A Seal that goes on after a failing rand.Read with the zero nonce, and
\* that writes the value of the cookie before it returns the error of the
\* encoder.
SealGobResultSubstitute(sc, e, c, rand) ==
    LET w == GobEncode(e)
        nonce == IF rand.ok THEN rand.nonce ELSE [i \in 1..NonceSize |-> 0]
        out == [c EXCEPT !.Value =
                   EncodeToString(SealBytes(sc.gcm, nonce, w.bytes,
                                            NameAD(c)))]
    IN  IF ~w.ok THEN Result("GobEncodeError", FALSE, FALSE, << >>, out)
        ELSE Result("nil", FALSE, FALSE, << >>, out)

\* SafeCookie.Seal(e, c), gob (lines 254-269); rand is what rand.Read
\* returns: an error, or the nonce filled.
SealGobResult(sc, e, c, rand) ==
    LET w == GobEncode(e)
    IN  IF ~w.ok THEN Result("GobEncodeError", FALSE, FALSE, << >>, c)
        ELSE IF ~rand.ok THEN Result("ErrRand", FALSE, FALSE, << >>, c)
        ELSE Result("nil", FALSE, FALSE, << >>,
                    [c EXCEPT !.Value =
                        EncodeToString(SealBytes(sc.gcm, rand.nonce, w.bytes,
                                                 NameAD(c)))])

\* The result of the gob Open: the error, the target after the call,
\* whether the decoder ran and on which bytes.
GobResult(err, e, ran, decIn) ==
    [err |-> err, e |-> e, ran |-> ran, decIn |-> decIn]

\* What the decoder makes of the plaintext pt.
GobDecoded(pt, g) == GobResult(g.err, g.e, TRUE, pt)

\* An Open that returns the error of the AEAD as it is.
OpenGobAuthRawErrors(e, o) ==
    IF ~o.ok THEN GobResult("errOpen", e, FALSE, << >>)
    ELSE GobDecoded(o.pt, GobDecode(o.pt, e))

\* SafeCookie.Open(c, e), lines 283-288: what the call does with the result
\* o of the AEAD; the decoder runs on the plaintext.
OpenGobAuth(e, o) ==
    IF ~o.ok THEN GobResult("ErrInvalidCookie", e, FALSE, << >>)
    ELSE GobDecoded(o.pt, GobDecode(o.pt, e))

\* SafeCookie.Open(c, e), gob (lines 274-289): the error of the decoder is
\* returned as it is.
OpenGobResult(sc, c, e) ==
    LET d == DecodeString(c.Value)
    IN  IF ~d.ok \/ Len(d.bytes) <= NonceSize
        THEN GobResult("ErrInvalidCookie", e, FALSE, << >>)
        ELSE OpenGobAuth(e, GCMOpen(sc.gcm, Take(d.bytes, NonceSize),
                                    Drop(d.bytes, NonceSize), NameAD(c)))

\* ------------------------------------------------------------------------
\* The inputs of the model.
\* ------------------------------------------------------------------------
Wingle == <<119, 105, 110, 103, 108, 101>>
Wongle == <<119, 111, 110, 103, 108, 101>>
ExampleCom == <<101, 120, 97, 109, 112, 108, 101, 46, 99, 111, 109>>
DotExampleCom == <<46>> \o ExampleCom
EvilCom == <<101, 118, 105, 108, 46, 99, 111, 109>>
Secret ==
    <<116, 104, 105, 115, 32, 105, 115, 32, 97, 32, 115, 101, 99, 114, 101,
      116>>
YellowSubmarine ==
    <<121, 101, 108, 108, 111, 119, 32, 115, 117, 98, 109, 97, 114, 105,
      110, 101>>
\* 2014-11-22 10:43:00 UTC, the expiry of the tests.
TestExpires == [sec |-> 1416652980, nsec |-> 0]

Variants == {"attr", "name", "pkg"}

\* Keys of every length 0..33 (the lengths New must tell apart); the one of
\* 16 bytes is the key of the tests.
Keys ==
    {[i \in 1..n |-> 107] : n \in (0..33) \ {16}} \cup {YellowSubmarine}

\* What is sealed: nothing, and the secret of the tests.
Payloads == {<< >>, Secret}

\* The variants and the gob variant.
AllVariants == Variants \cup {"gob"}

\* The values the gob variant seals: the string of the tests, an int (a
\* negative one, of four bytes on the wire), and a func, which gob
\* refuses.
GobValues ==
    {[kind |-> "string", s |-> Secret, n |-> Int64(0)],
     [kind |-> "int", s |-> << >>, n |-> Int64(-536870913)],
     [kind |-> "func", s |-> << >>, n |-> Int64(0)]}

\* What Encode writes before the first value of the struct of Example
\* (type Session struct { UserID int }, safecookie_test.go lines 15-17):
\* the definition of the type, with the id 65.
SessionType ==
    <<32, 255, 129, 3, 1, 1, 7, 83, 101, 115, 115, 105, 111, 110, 1, 255,
      130, 0, 1, 1, 1, 6, 85, 115, 101, 114, 73, 68, 1, 4, 0, 0, 0>>

\* Streams of gob messages a holder of the key seals without Seal(e, c):
\* what Encode writes for Session{UserID: 7}, the definition of Session
\* followed by the int 7, and the definition alone.
GobStreams ==
    {SessionType \o <<5, 255, 130, 1, 14, 0>>,
     SessionType \o <<3, 4, 0, 14>>,
     SessionType}

\* The targets Open decodes into, holding a value before the call.
GobTargets ==
    {[kind |-> "string", s |-> <<104, 105>>, n |-> Int64(0)],
     [kind |-> "int", s |-> << >>, n |-> Int64(5)]}

\* What rand.Read may return: the nonce filled, or an error.
RandOutcomes ==
    {[ok |-> TRUE, nonce |-> n] :
        n \in {[i \in 1..NonceSize |-> i], [i \in 1..NonceSize |-> 200 + i]}}
    \cup {[ok |-> FALSE, nonce |-> << >>]}

\* What rand.Read may fill the nonce with. Seal keeps no record of the
\* nonces it used: a call may be given the bytes an earlier call was given.
Nonces == {[i \in 1..NonceSize |-> i], [i \in 1..NonceSize |-> 200 + i]}

\* The cookie of TestRoundTrip (full attributes) and the cookie of the
\* name-only tests, http.Cookie{Name: "wingle"}, before a value is set.
FullCookie ==
    [Name |-> Wingle, Value |-> << >>, Path |-> <<47>>, Domain |-> ExampleCom,
     Expires |-> TestExpires, MaxAge |-> 0, Secure |-> TRUE,
     HttpOnly |-> TRUE]

BareCookie ==
    [Name |-> Wingle, Value |-> << >>, Path |-> << >>, Domain |-> << >>,
     Expires |-> NoTime, MaxAge |-> 0, Secure |-> FALSE, HttpOnly |-> FALSE]

\* The fields of a cookie other than its value.
AttrFields ==
    {"Name", "Path", "Domain", "Expires", "MaxAge", "Secure", "HttpOnly"}

\* The values the holder of a cookie may give a field.
FieldValues(f) ==
    CASE f = "Name" -> {Wingle, Wongle}
      [] f = "Path" -> {<<47>>, <<47, 97>>}
      [] f = "Domain" -> {<< >>, ExampleCom, DotExampleCom, EvilCom}
      [] f = "Expires" ->
            {NoTime, TestExpires, [sec |-> 1416652981, nsec |-> 0]}
      [] f = "MaxAge" -> {-1, 60}
      [] f = "Secure" -> BOOLEAN
      [] f = "HttpOnly" -> BOOLEAN

\* Values a holder may present that no Seal produced: not base64, the empty
\* string, and the encodings of byte strings around the nonce size.
ForgedValues ==
    {<< >>, <<42, 42, 64, 51>>}
    \cup {EncodeToString([i \in 1..n |-> 65]) :
            n \in {1, NonceSize - 1, NonceSize, NonceSize + 1,
                   NonceSize + TagSize}}

\* The character that follows ch in the alphabet.
NextChar(ch) == URLAlphabet[(DecodeMap(ch) + 1) % 64]

\* The position of the last character of v that is not padding.
LastData(v) ==
    IF Len(v) >= 2 /\ v[Len(v)] = PadChar /\ v[Len(v) - 1] = PadChar
    THEN Len(v) - 2
    ELSE IF Len(v) >= 1 /\ v[Len(v)] = PadChar THEN Len(v) - 1
    ELSE Len(v)

\* The changes to a token the model makes: one character replaced (the
\* first, one of the ciphertext, the last before the padding), the first
\* two replaced by "rQ" (TestBadValue), characters cut off the end,
\* characters appended ("**@3" of TestBadEncoding, a character of the
\* alphabet, a quantum, a newline).
Tampered(v) ==
    (IF Len(v) >= 4
     THEN {[v EXCEPT ![i] = NextChar(v[i])] : i \in {1, 20, LastData(v)} \cap (1..Len(v))}
          \cup {<<114, 81>> \o Drop(v, 2)}
          \cup {Take(v, Len(v) - k) : k \in {1, 4}}
     ELSE {})
    \cup {v \o x : x \in {<<42, 42, 64, 51>>, <<65>>, <<65, 65, 65, 65>>,
                          <<10>>}}

\* ------------------------------------------------------------------------
\* The state: one instance, one cookie and its holder.
\* ------------------------------------------------------------------------
VARIABLES
    variant,    \* the variant of the package the program uses
    sc,         \* the instance New / NewGCM / AESGCM returned
    c,          \* the cookie
    res,        \* the last call: its name, inputs and result
    sealed,     \* the last successful Seal: payload, nonce, cookie before/after
    prev,       \* the successful Seal before that
    nSeal,      \* calls of Seal so far
    nOpen,      \* calls of Open so far
    changed,    \* the holder of the cookie has changed it
    calls,      \* concurrent callers: each one's position and locals
    gobv        \* the last gob Open: its target before and after, the decoder

vars ==
    <<variant, sc, c, res, sealed, prev, nSeal, nOpen, changed, calls, gobv>>

\* No gob Open yet.
NoGob ==
    [e0 |-> [kind |-> "int", s |-> << >>, n |-> Int64(0)],
     e |-> [kind |-> "int", s |-> << >>, n |-> Int64(0)],
     ran |-> FALSE, decIn |-> << >>]

NoSeal ==
    [done |-> FALSE, P |-> << >>, nonce |-> << >>, before |-> BareCookie,
     after |-> BareCookie]

NoRes ==
    [op |-> "none", key |-> << >>, in |-> BareCookie, err |-> "none",
     panicked |-> FALSE, hasData |-> FALSE, data |-> << >>]

CallRes(op, key, in, r) ==
    [op |-> op, key |-> key, in |-> in, err |-> r.err,
     panicked |-> r.panicked, hasData |-> r.hasData, data |-> r.data]

Callers == 1..NumCallers

\* A caller before its first call.
IdleCall ==
    [pc |-> "start", data |-> << >>, in |-> BareCookie, c |-> BareCookie,
     nonce |-> << >>, drew |-> << >>, ct |-> << >>, b |-> << >>,
     err |-> "none", hasData |-> FALSE, out |-> << >>]

\* The cookie the tests of a variant start from: the in-place variants
\* seal the cookie with all attributes, the name-only ones the bare cookie.
InitialCookie(v) == IF v \in {"attr", "pkg"} THEN FullCookie ELSE BareCookie

Init ==
    /\ calls = [p \in Callers |-> IdleCall]
    /\ gobv = NoGob
    /\ variant \in AllVariants
    /\ sc = NoInstance
    /\ c = InitialCookie(variant)
    /\ res = NoRes
    /\ sealed = NoSeal
    /\ prev = NoSeal
    /\ nSeal = 0
    /\ nOpen = 0
    /\ changed = FALSE

\* The program goes on after a call that returned, not after a panic.
Running == sc.ok /\ ~res.panicked

\* The server seals the cookie before it hands it out. A second Seal seals
\* the same cookie with the same payload again (BenchmarkSeal).
CanSeal == Running /\ nSeal < MaxSeals /\ ~changed /\ nOpen = 0

ToSeal == IF sealed.done THEN sealed.before ELSE c

\* New(key) / NewGCM(key) / AESGCM(key).
New ==
    /\ ~sc.ok
    /\ \E key \in Keys : \E r \in {NewResult(key)} :
          /\ sc' = r.sc
          /\ res' = [NoRes EXCEPT !.op = "New", !.key = key, !.err = r.err]
    /\ UNCHANGED <<gobv, calls, variant, c, sealed, prev, nSeal, nOpen, changed>>

\* The caller sets the value to seal (in-place variants).
SetPlainValue ==
    /\ Running
    /\ variant \in {"attr", "pkg"}
    /\ nSeal = 0 /\ ~changed /\ nOpen = 0
    /\ c.Value = << >>
    /\ \E v \in Payloads \ {<< >>} : c' = [c EXCEPT !.Value = v]
    /\ UNCHANGED <<gobv, calls, variant, sc, res, sealed, prev, nSeal, nOpen, changed>>

\* Seal with rand.Read failing: the error is returned, the cookie is as it
\* was.
SealRandFails ==
    /\ CanSeal /\ variant \in Variants
    /\ nSeal' = nSeal + 1
    /\ res' = [NoRes EXCEPT !.op = "Seal", !.key = sc.key, !.in = c,
                            !.err = "ErrRand"]
    /\ UNCHANGED <<gobv, calls, variant, sc, c, sealed, prev, nOpen, changed>>

\* What a successful Seal of cookie `in` leaves behind.
Sealed(in, P, nonce, r) ==
    /\ c' = r.c
    /\ res' = CallRes("Seal", sc.key, in, r)
    /\ sealed' = [done |-> TRUE, P |-> P, nonce |-> nonce, before |-> in,
                  after |-> r.c]
    /\ prev' = sealed
    /\ nSeal' = nSeal + 1
    /\ UNCHANGED <<gobv, calls, variant, sc, nOpen, changed>>

\* SafeCookie.Seal(c), full-attribute.
SealAttr ==
    /\ CanSeal /\ variant = "attr"
    /\ \E nonce \in Nonces :
       \E r \in {SealAttrResult(sc, ToSeal, nonce)} :
          Sealed(ToSeal, ToSeal.Value, nonce, r)

\* SafeCookie.Seal(data, c), name-only.
SealName ==
    /\ CanSeal /\ variant = "name"
    /\ \E nonce \in Nonces :
       \E data \in IF sealed.done THEN {sealed.P} ELSE Payloads :
       \E r \in {SealNameResult(sc, data, ToSeal, nonce)} :
          Sealed(ToSeal, data, nonce, r)

\* Seal(aead, c), package-level.
SealPkg ==
    /\ CanSeal /\ variant = "pkg"
    /\ \E nonce \in Nonces :
       \E r \in {SealPkgResult(sc, ToSeal, nonce)} :
          Sealed(ToSeal, ToSeal.Value, nonce, r)

\* What a Seal of the value e with result r leaves behind.
SealedGob(e, rand, r) ==
    IF r.err = "nil"
    THEN Sealed(ToSeal, GobEncode(e).bytes, rand.nonce, r)
    ELSE /\ c' = r.c
         /\ res' = CallRes("Seal", sc.key, ToSeal, r)
         /\ nSeal' = nSeal + 1
         /\ UNCHANGED <<gobv, calls, variant, sc, sealed, prev, nOpen,
                        changed>>

\* SafeCookie.Seal(e, c), gob: the value is marshalled, the nonce drawn, the
\* value of the cookie set; an error of either is returned.
SealGob ==
    /\ CanSeal /\ variant = "gob"
    /\ \E rand \in RandOutcomes :
       \E e \in IF sealed.done
                THEN {x \in GobValues : GobEncode(x).bytes = sealed.P}
                ELSE GobValues :
       \E r \in {SealGobResult(sc, e, ToSeal, rand)} :
          SealedGob(e, rand, r)

\* What an Open into the target e with result r leaves behind.
OpenedGob(e, r) ==
    /\ gobv' = [e0 |-> e, e |-> r.e, ran |-> r.ran, decIn |-> r.decIn]
    /\ res' = CallRes("Open", sc.key, c,
                      Result(r.err, FALSE, FALSE, << >>, c))
    /\ nOpen' = nOpen + 1
    /\ UNCHANGED <<calls, variant, sc, c, sealed, prev, nSeal, changed>>

\* SafeCookie.Open(c, e), gob.
OpenGob ==
    /\ Running /\ variant = "gob" /\ nOpen < MaxOpens
    /\ \E e \in GobTargets : \E r \in {OpenGobResult(sc, c, e)} :
          OpenedGob(e, r)

\* What an Open leaves behind.
Opened(r) ==
    /\ c' = r.c
    /\ res' = CallRes("Open", sc.key, c, r)
    /\ nOpen' = nOpen + 1
    /\ UNCHANGED <<gobv, calls, variant, sc, sealed, prev, nSeal, changed>>

\* SafeCookie.Open(c), full-attribute.
OpenAttr ==
    /\ Running /\ variant = "attr" /\ nOpen < MaxOpens
    /\ \E r \in {OpenAttrResult(sc, c)} : Opened(r)

\* SafeCookie.Open(c), name-only.
OpenName ==
    /\ Running /\ variant = "name" /\ nOpen < MaxOpens
    /\ \E r \in {OpenNameResult(sc, c)} : Opened(r)

\* Open(aead, c), package-level.
OpenPkg ==
    /\ Running /\ variant = "pkg" /\ nOpen < MaxOpens
    /\ \E r \in {OpenPkgResult(sc, c)} : Opened(r)

\* The holder changes a cookie that has not been opened, once. The changes
\* are made to cookies of the instance with the key of the tests; a cookie
\* that was sealed a second time is opened as it is.
CanChange ==
    /\ Running /\ sc.key = YellowSubmarine
    /\ ~changed /\ nOpen = 0 /\ ~prev.done

Changed ==
    /\ changed' = TRUE
    /\ UNCHANGED <<gobv, calls, variant, sc, res, sealed, prev, nSeal, nOpen>>

\* The holder of the sealed cookie changes one of its attributes.
ChangeAttr ==
    /\ CanChange
    /\ sealed.done
    /\ \E f \in AttrFields : \E v \in FieldValues(f) \ {c[f]} :
          c' = [c EXCEPT ![f] = v]
    /\ Changed

\* The holder changes characters of the sealed value.
TamperValue ==
    /\ CanChange
    /\ sealed.done
    /\ \E v \in Tampered(c.Value) : c' = [c EXCEPT !.Value = v]
    /\ Changed

\* The holder presents a value that was never sealed.
ForgeValue ==
    /\ CanChange
    /\ \E v \in ForgedValues \ {c.Value} : c' = [c EXCEPT !.Value = v]
    /\ Changed

\* A holder of the instance seals a stream of gob messages under the name
\* of the cookie with the exported AEAD (line 232), the way Seal does
\* (lines 260-268), and presents the token.
SealStream ==
    /\ CanChange /\ variant = "gob"
    /\ \E b \in GobStreams : \E nonce \in Nonces :
       \E v \in {EncodeToString(SealBytes(sc.gcm, nonce, b, NameAD(c)))} :
          c' = [c EXCEPT !.Value = v]
    /\ Changed

Next ==
    \/ New
    \/ SetPlainValue
    \/ SealRandFails
    \/ SealAttr
    \/ SealName
    \/ SealPkg
    \/ SealGob
    \/ OpenAttr
    \/ OpenName
    \/ OpenPkg
    \/ OpenGob
    \/ ChangeAttr
    \/ TamperValue
    \/ ForgeValue
    \/ SealStream

Spec == Init /\ [][Next]_vars

\* ------------------------------------------------------------------------
\* Concurrent callers of one instance (name-only variant, lines 158-188):
\* each caller seals its own cookie and opens it, a statement at a time.
\* ------------------------------------------------------------------------
\* A nonce buffer that is a field of the shared instance.
NonceHomeShared(p) == 1

\* Where a call keeps its nonce: `nonce := make([]byte, ...)` is a local of
\* the call.
NonceHome(p) == p

\* Each caller has a cookie of its own.
OwnCookie(p) ==
    [BareCookie EXCEPT !.Name = IF p % 2 = 1 THEN Wingle ELSE Wongle]

\* What each caller seals: the secret, or nothing.
OwnPayload(p) == IF p % 2 = 1 THEN Secret ELSE << >>

ConcInit ==
    /\ calls = [p \in Callers |-> IdleCall]
    /\ gobv = NoGob
    /\ variant = "name"
    /\ sc = NewResult(YellowSubmarine).sc
    /\ c = BareCookie
    /\ res = NoRes
    /\ sealed = NoSeal
    /\ prev = NoSeal
    /\ nSeal = 0
    /\ nOpen = 0
    /\ changed = FALSE

ConcFrame ==
    UNCHANGED <<variant, sc, c, res, sealed, prev, nSeal, nOpen, changed,
                gobv>>

\* Seal, lines 159-162: the nonce is made and rand.Read fills it, or fails
\* and Seal returns its error.
CSealRand(p) ==
    /\ calls[p].pc = "start"
    /\ \E rand \in RandOutcomes :
          calls' =
            IF rand.ok
            THEN [calls EXCEPT
                    ![p] = [@ EXCEPT !.pc = "seal_enc",
                                     !.data = OwnPayload(p),
                                     !.in = OwnCookie(p),
                                     !.c = OwnCookie(p),
                                     !.drew = rand.nonce],
                    ![NonceHome(p)].nonce = rand.nonce]
            ELSE [calls EXCEPT
                    ![p] = [@ EXCEPT !.pc = "done",
                                     !.data = OwnPayload(p),
                                     !.in = OwnCookie(p),
                                     !.c = OwnCookie(p),
                                     !.err = "ErrRand"]]
    /\ ConcFrame

\* Seal, line 164: the AEAD of the shared instance seals.
CSealEncrypt(p) ==
    /\ calls[p].pc = "seal_enc"
    /\ calls' = [calls EXCEPT
                   ![p].ct = SealBytes(sc.gcm, calls[NonceHome(p)].nonce,
                                       calls[p].data, NameAD(calls[p].c)),
                   ![p].pc = "seal_write"]
    /\ ConcFrame

\* Seal, lines 165-167: the value is set, Seal returns.
CSealReturn(p) ==
    /\ calls[p].pc = "seal_write"
    /\ calls' = [calls EXCEPT
                   ![p].c = [@ EXCEPT !.Value = EncodeToString(calls[p].ct)],
                   ![p].pc = "sealed"]
    /\ ConcFrame

\* Open, lines 174-177: the value is decoded and its length checked.
COpenDecode(p) ==
    /\ calls[p].pc = "sealed"
    /\ LET d == DecodeString(calls[p].c.Value)
       IN  calls' = [calls EXCEPT
                       ![p] = IF ~d.ok \/ Len(d.bytes) <= NonceSize
                              THEN [@ EXCEPT !.pc = "done",
                                             !.err = "ErrInvalidCookie"]
                              ELSE [@ EXCEPT !.pc = "open_auth",
                                             !.b = d.bytes]]
    /\ ConcFrame

\* Open, lines 183-187: the caller with what Open returns on the result o
\* of the AEAD.
COpenReturn(call, o) ==
    IF ~o.ok THEN [call EXCEPT !.pc = "done", !.err = "ErrInvalidCookie"]
    ELSE [call EXCEPT !.pc = "done", !.err = "nil",
                      !.hasData = o.pt # << >>, !.out = o.pt]

\* Open, lines 179-187: the AEAD of the shared instance opens.
COpenAuth(p) ==
    /\ calls[p].pc = "open_auth"
    /\ calls' = [calls EXCEPT
                   ![p] = COpenReturn(@, GCMOpen(sc.gcm,
                                                 Take(calls[p].b, NonceSize),
                                                 Drop(calls[p].b, NonceSize),
                                                 NameAD(calls[p].c)))]
    /\ ConcFrame

ConcNext ==
    \E p \in Callers :
        \/ CSealRand(p)
        \/ CSealEncrypt(p)
        \/ CSealReturn(p)
        \/ COpenDecode(p)
        \/ COpenAuth(p)

ConcSpec == ConcInit /\ [][ConcNext]_vars

\* ------------------------------------------------------------------------
\* Properties.
\* ------------------------------------------------------------------------
\* Open of the variant in use.
OpenResult(v, inst, cookie) ==
    CASE v = "attr" -> OpenAttrResult(inst, cookie)
      [] v = "name" -> OpenNameResult(inst, cookie)
      [] v = "pkg" -> OpenPkgResult(inst, cookie)

\* The payload a successful Open result hands back: the bytes returned
\* (name-only) or the cookie's value (in place).
Plain(v, r) == IF v = "name" THEN r.data ELSE r.c.Value

\* The fields a variant binds the sealed value to.
ContextFields(v) == IF v = "name" THEN {"Name"} ELSE AttrFields

\* The fields among fs in which two cookies differ.
Differing(a, b, fs) == {f \in fs : a[f] # b[f]}

\* The last call was an Open of a cookie that had been sealed.
OpenedSealed == res.op = "Open" /\ sealed.done

\* The payload the last Open handed to its caller.
Returned == IF variant = "name" THEN res.data ELSE c.Value

\* C1: round trip. An Open of the cookie exactly as Seal left it (same
\* instance, nothing changed in between) returns no error and yields the
\* sealed payload: as the cookie's value in the in-place variants, as the
\* returned bytes in the name-only variant.
C1_RoundTrip ==
    (OpenedSealed /\ variant \in Variants /\ res.in = sealed.after) =>
        /\ res.err = "nil"
        /\ ~res.panicked
        /\ variant = "name" => (res.hasData <=> sealed.P # << >>)
        /\ Returned = sealed.P

C1_Witness ==
    /\ OpenedSealed /\ res.in = sealed.after
    /\ variant = "attr"
    /\ sealed.before = [FullCookie EXCEPT !.Value = Secret]
    /\ sc.key = YellowSubmarine
    /\ c.Value = Secret

\* C2: tamper-evidence on context. An Open (method variants) of a sealed
\* cookie whose value is untouched and whose context differs from the sealed
\* one in exactly one field (the name; in the full-attribute variant any
\* field but the value) returns ErrInvalidCookie.
C2_ContextTamper ==
    (/\ OpenedSealed
     /\ variant \in {"attr", "name"}
     /\ res.in.Value = sealed.after.Value
     /\ Cardinality(Differing(res.in, sealed.after, ContextFields(variant))) = 1)
    => (res.err = "ErrInvalidCookie" /\ ~res.panicked)

\* C3: tamper-evidence on token. An Open (name-only variant, same instance,
\* same cookie name) of a value that differs from every token Seal produced
\* returns ErrInvalidCookie.
C3_TokenTamper ==
    (/\ OpenedSealed
     /\ variant = "name"
     /\ res.in.Name = sealed.after.Name
     /\ res.in.Value # sealed.after.Value
     /\ prev.done => res.in.Value # prev.after.Value)
    => (res.err = "ErrInvalidCookie" /\ ~res.hasData)

\* C4: fail-closed on short input. An Open, in every variant, of a value
\* that is valid base64 of at most NonceSize bytes returns ErrInvalidCookie:
\* it does not panic and hands back no plaintext.
C4_ShortInput ==
    (/\ res.op = "Open"
     /\ DecodeString(res.in.Value).ok
     /\ Len(DecodeString(res.in.Value).bytes) <= NonceSize)
    => (/\ ~res.panicked
        /\ res.err = "ErrInvalidCookie"
        /\ ~res.hasData
        /\ c = res.in)

\* C5: uniform opening error. Every error an Open returns, in every variant,
\* is ErrInvalidCookie.
C5_UniformError ==
    (res.op = "Open" /\ variant \in Variants /\ ~res.panicked
     /\ res.err # "nil")
    => res.err = "ErrInvalidCookie"

\* C6: key length validation. Construction returns no error exactly when the
\* key is 16, 24 or 32 bytes long; then the instance is usable and holds
\* that key; otherwise there is no instance.
C6_KeyLength ==
    res.op = "New" =>
        /\ (res.err = "nil") <=> (Len(res.key) \in {16, 24, 32})
        /\ res.err = "nil" => (sc.ok /\ sc.key = res.key)
        /\ res.err # "nil" => (res.err = "KeySizeError" /\ sc = NoInstance)

C6_Witness == res.op = "New" /\ Len(res.key) = 24 /\ sc.ok

ResultsAsAlone ==
    \A p \in Callers :
        /\ (calls[p].pc = "done" /\ calls[p].err = "ErrRand") =>
              calls[p].c = calls[p].in
        /\ (\/ calls[p].pc \in {"sealed", "open_auth"}
            \/ calls[p].pc = "done" /\ calls[p].err # "ErrRand") =>
              calls[p].c =
                SealNameResult(sc, calls[p].data, calls[p].in,
                               calls[p].drew).c
        /\ (calls[p].pc = "done" /\ calls[p].err # "ErrRand") =>
              LET r == OpenNameResult(sc, calls[p].c)
              IN  /\ calls[p].err = r.err
                  /\ calls[p].hasData = r.hasData
                  /\ calls[p].out = r.data
                  /\ r.err = "nil" /\ r.data = calls[p].data

\* C8: concurrent use. In every interleaving of the callers' statements
\* each call ends with the result it has when run alone, and no step
\* changes the shared instance.
C8_Concurrent == [](ResultsAsAlone) /\ [][sc' = sc]_vars

C8_Witness ==
    /\ \A p \in Callers : calls[p].pc = "done" /\ calls[p].err = "nil"
    /\ calls[1].drew # calls[2].drew
    /\ calls[1].data # calls[2].data

\* C9: canonicalize is injective on the attributes other than the value,
\* and does not depend on the value: the cookie the holder presents has the
\* canonical form of the sealed cookie exactly when no attribute other than
\* the value differs.
C9_CanonicalizeInjective ==
    (sealed.done /\ variant = "attr") =>
        ((Differing(c, sealed.after, AttrFields) = {})
            <=> (Canonicalize(c) = Canonicalize(sealed.after)))

\* C10: name-only binding. In the name-only variant an Open of a sealed
\* cookie with its value untouched succeeds and returns the payload when
\* the name is the sealed one, whatever else of the cookie has changed, and
\* returns ErrInvalidCookie when the name has changed.
C10_NameOnlyBinding ==
    (OpenedSealed /\ variant = "name" /\ res.in.Value = sealed.after.Value)
    => IF res.in.Name = sealed.after.Name
       THEN /\ res.err = "nil" /\ res.data = sealed.P
            /\ res.hasData <=> sealed.P # << >>
       ELSE res.err = "ErrInvalidCookie" /\ ~res.hasData

C10_Witness ==
    /\ OpenedSealed /\ variant = "name"
    /\ res.in.Value = sealed.after.Value
    /\ res.in.Name = sealed.after.Name
    /\ Differing(res.in, sealed.after, AttrFields) # {}
    /\ res.err = "nil" /\ res.data = sealed.P

\* C11: no plaintext alongside an error. An Open that returns an error
\* returns no bytes with it (nil data) and leaves the cookie, its value and
\* every other field, exactly as it was given.
C11_NoPlaintextWithError ==
    (res.op = "Open" /\ ~res.panicked /\ res.err # "nil")
    => (/\ ~res.hasData
        /\ res.data = << >>
        /\ c = res.in)

C11_Witness ==
    /\ OpenedSealed /\ variant = "attr"
    /\ res.err = "ErrInvalidCookie"
    /\ res.in.Value # sealed.after.Value
    /\ Len(DecodeString(res.in.Value).bytes) > NonceSize + TagSize
    /\ c = res.in

\* C12: a failing Seal propagates and has no effect. When rand.Read fails,
\* or in the gob variant the encoder fails, Seal returns that error as it
\* is and leaves the cookie, its value and every other field, as it was
\* given; a Seal that returns nil has changed the value only, and the value
\* begins with the nonce rand.Read supplied.
C12_SealFailureNoEffect ==
    (res.op = "Seal" /\ ~changed /\ nOpen = 0) =>
        IF res.err # "nil"
        THEN /\ res.err \in {"ErrRand", "GobEncodeError"}
             /\ res.err = "GobEncodeError" => variant = "gob"
             /\ c = res.in
        ELSE /\ \A f \in AttrFields : c[f] = res.in[f]
             /\ sealed.done /\ c = sealed.after
             /\ Take(DecodeString(c.Value).bytes, NonceSize) = sealed.nonce

C12_Witness ==
    /\ variant = "gob" /\ res.op = "Seal" /\ ~changed /\ nOpen = 0
    /\ res.err = "GobEncodeError"
    /\ c = res.in

\* C13: authentication precedes deserialization. In the gob Open the
\* decoder runs only on the bytes the AEAD authenticated under the key and
\* the name of the cookie; a failure before that (bad base64, no more bytes
\* than a nonce, failed authentication) returns ErrInvalidCookie and leaves
\* the target as it was, so an error other than ErrInvalidCookie means the
\* authentication had succeeded.
C13_AuthBeforeDecode ==
    (res.op = "Open" /\ variant = "gob") =>
        LET d == DecodeString(res.in.Value)
            long == d.ok /\ Len(d.bytes) > NonceSize
            o == GCMOpen(sc.gcm, Take(d.bytes, NonceSize),
                         Drop(d.bytes, NonceSize), res.in.Name)
            authentic == long /\ o.ok
        IN  /\ gobv.ran => (authentic /\ gobv.decIn = o.pt)
            /\ ~authentic => /\ res.err = "ErrInvalidCookie"
                             /\ gobv.e = gobv.e0
                             /\ ~gobv.ran
            /\ res.err \notin {"nil", "ErrInvalidCookie"} => authentic

C13_Witness ==
    /\ variant = "gob" /\ res.op = "Open"
    /\ res.in = sealed.after
    /\ gobv.ran /\ gobv.decIn = sealed.P
    /\ res.err = "GobDecodeError"
    /\ gobv.e = gobv.e0

====
